---- MODULE Spec2Model ----
(***************************************************************************)
(* Parity UI: the dapp-registry submission helpers                         *)
(* (js/src/dapps/dappreg/utils.js) and the Transfer wizard                 *)
(* (the Transfer component of js/src/ui/Portal/portal.js and its store).   *)
(***************************************************************************)
EXTENDS Integers, Sequences, FiniteSets, TLC

(***************************************************************************)
(* Bounds of the model.                                                    *)
(***************************************************************************)
\* gas estimates the backend may answer with: 0..MaxEstimate
MaxEstimate == 7
\* registration fees the DappReg contract may answer with: 0..MaxFee
MaxFee == 1
\* "pending" answers a receipt poll may get before the receipt
MaxPolls == 1

(***************************************************************************)
(* BigNumber arithmetic.  A BigNumber is kept as an exact fraction         *)
(* [num, den] with den > 0, so that gas.mul(1.2) loses nothing.            *)
(***************************************************************************)
Big(n) == [num |-> n, den |-> 1]

BigEq(a, b) == a.num * b.den = b.num * a.den

\* gas.mul(1.2)
Mul12(gas) == [num |-> gas.num * 12, den |-> gas.den * 10]

\* BigNumber.toFixed(0) under the library's default ROUNDING_MODE (ROUND_HALF_UP),
\* for the non-negative values a gas estimate takes: the nearest integer, a tie
\* going up.
ToFixed0Truncating(x) == Big(x.num \div x.den)

ToFixed0(x) == Big((2 * x.num + x.den) \div (2 * x.den))

(***************************************************************************)
(* The submission helpers of dappreg/utils.js.  One invocation at a time   *)
(* is followed from the call to the end of its promise chain.              *)
(***************************************************************************)
Helpers == {"registerGHH", "registerDapp", "deleteDapp", "updateDappOwner", "setMeta"}

NoGas == Big(-1)

VARIABLES
  hHelper,     \* the helper invoked, "none" before the invocation
  hPc,         \* where the promise chain of the invocation stands
  hFee,        \* options.value of registerDapp (-1: not set)
  hEstimate,   \* the BigNumber estimateGas resolved with (NoGas: none yet)
  hOptionsGas, \* options.gas
  hPostedGas,  \* the gas of the options postTransaction was called with
  hTrace,      \* the backend calls and answers of the invocation, in order
  hPolls       \* "pending" answers the receipt poll has got

hvars == <<hHelper, hPc, hFee, hEstimate, hOptionsGas, hPostedGas, hTrace, hPolls>>

HInit ==
  /\ hHelper = "none"
  /\ hPc = "idle"
  /\ hFee = -1
  /\ hEstimate = NoGas
  /\ hOptionsGas = NoGas
  /\ hPostedGas = NoGas
  /\ hTrace = <<>>
  /\ hPolls = 0

\* Invoke with the .then left out: the transaction is posted in the same turn
\* as the estimate is asked for.
InvokePostingAtOnce(h) ==
  /\ hPc = "idle"
  /\ hHelper' = h
  /\ hPc' = "posting"
  /\ hPostedGas' = hOptionsGas
  /\ hTrace' = hTrace \o <<"estimateGas", "postTransaction">>
  /\ UNCHANGED <<hFee, hEstimate, hOptionsGas, hPolls>>

\* The helper is called: registerDapp first reads the fee, the others start
\* with estimateGas(options, values).
Invoke(h) ==
  /\ hPc = "idle"
  /\ hHelper' = h
  /\ IF h = "registerDapp"
       THEN /\ hPc' = "fee"
            /\ hTrace' = Append(hTrace, "fee.call")
       ELSE /\ hPc' = "estimating"
            /\ hTrace' = Append(hTrace, "estimateGas")
  /\ UNCHANGED <<hFee, hEstimate, hOptionsGas, hPostedGas, hPolls>>

\* registerDapp: fee.call resolved, options.value = fee, then estimateGas.
FeeReturned(fee) ==
  /\ hPc = "fee"
  /\ hFee' = fee
  /\ hPc' = "estimating"
  /\ hTrace' = hTrace \o <<"fee", "estimateGas">>
  /\ UNCHANGED <<hHelper, hEstimate, hOptionsGas, hPostedGas, hPolls>>

\* The value the .then callback of estimateGas stores in options.gas.
GasOption(h, gas) ==
  IF h = "updateDappOwner" THEN Mul12(gas) ELSE ToFixed0(Mul12(gas))

\* .then((gas) => { options.gas = ...; return postTransaction(options, values); })
EstimateReturned(g) ==
  /\ hPc = "estimating"
  /\ hEstimate' = Big(g)
  /\ hOptionsGas' = GasOption(hHelper, Big(g))
  /\ hPostedGas' = hOptionsGas'
  /\ hPc' = "posting"
  /\ hTrace' = hTrace \o <<"estimate", "postTransaction">>
  /\ UNCHANGED <<hHelper, hFee, hPolls>>

\* CallFailed with a .catch that posts once more after a failed post
CallFailedRetrying ==
  /\ hPc \in {"fee", "estimating", "posting"}
  /\ IF hPc = "posting" /\ \A i \in 1..Len(hTrace) : hTrace[i] # "error"
       THEN /\ hPc' = "posting"
            /\ hTrace' = hTrace \o <<"error", "postTransaction">>
       ELSE /\ hPc' = "failed"
            /\ hTrace' = Append(hTrace, "error")
  /\ UNCHANGED <<hHelper, hFee, hEstimate, hOptionsGas, hPostedGas, hPolls>>

\* A backend call of the chain rejects: no callback of the chain runs, the
\* promise the helper returned rejects with the error.
CallFailed ==
  /\ hPc \in {"fee", "estimating", "posting"}
  /\ hPc' = "failed"
  /\ hTrace' = Append(hTrace, "error")
  /\ UNCHANGED <<hHelper, hFee, hEstimate, hOptionsGas, hPostedGas, hPolls>>

\* postTransaction resolved: the helper's promise resolves with the request id.
PostReturned ==
  /\ hPc = "posting"
  /\ hPc' = "posted"
  /\ hTrace' = Append(hTrace, "requestId")
  /\ UNCHANGED <<hHelper, hFee, hEstimate, hOptionsGas, hPostedGas, hPolls>>

(***************************************************************************)
(* The rest of the submission pipeline (steps 4 and 5: await the hash,     *)
(* poll for the receipt) is run by the helpers' caller with the request id *)
(* the helper resolved with.                                               *)
(***************************************************************************)
\* The signer confirmed the request: the hash is obtained and receipt polling
\* begins.
HashObtained ==
  /\ hPc = "posted"
  /\ hPc' = "polling"
  /\ hTrace' = hTrace \o <<"hash", "getReceipt">>
  /\ UNCHANGED <<hHelper, hFee, hEstimate, hOptionsGas, hPostedGas, hPolls>>

\* The signer declined the request.
SignerDeclined ==
  /\ hPc = "posted"
  /\ hPc' = "rejected"
  /\ hTrace' = Append(hTrace, "rejected")
  /\ UNCHANGED <<hHelper, hFee, hEstimate, hOptionsGas, hPostedGas, hPolls>>

\* getReceipt(hash) answered "pending": the poll is repeated.
ReceiptPending ==
  /\ hPc = "polling"
  /\ hPolls < MaxPolls
  /\ hPolls' = hPolls + 1
  /\ hTrace' = hTrace \o <<"pending", "getReceipt">>
  /\ UNCHANGED <<hHelper, hPc, hFee, hEstimate, hOptionsGas, hPostedGas>>

\* getReceipt(hash) answered with the receipt.
ReceiptObserved ==
  /\ hPc = "polling"
  /\ hPc' = "done"
  /\ hTrace' = Append(hTrace, "receipt")
  /\ UNCHANGED <<hHelper, hFee, hEstimate, hOptionsGas, hPostedGas, hPolls>>

HNext ==
  \/ \E h \in Helpers : Invoke(h)
  \/ \E fee \in 0..MaxFee : FeeReturned(fee)
  \/ \E g \in 0..MaxEstimate : EstimateReturned(g)
  \/ CallFailed
  \/ PostReturned
  \/ HashObtained
  \/ SignerDeclined
  \/ ReceiptPending
  \/ ReceiptObserved


(***************************************************************************)
(* The Transfer wizard.  The Transfer component (portal.js) reads its      *)
(* store and renders the page and the buttons; the store (TransferStore,   *)
(* ./store) holds the request, the stage and the submission.               *)
(***************************************************************************)
\* more bounds: balances 0..MaxBalance, values 0..MaxValue, gas and gas
\* price 0..MaxGas
MaxBalance == 2
MaxValue == 3
MaxGas == 1

Wizards == {"w1", "w2"}

\* ERROR_CODES of api/transport/error.js the backend answers a submission with
EXECUTION_ERROR == -32015
ACCOUNT_LOCKED == -32020
REQUEST_REJECTED == -32040

EstimateErrors == {EXECUTION_ERROR}
SubmitErrors == {ACCOUNT_LOCKED, REQUEST_REJECTED}

Recipients == {"", "0x00a329c0648769a73afac7f9381e08fb43dbea72"}
Hashes == {"0xh1", "0xh2"}
Operations == {"0xop"}
None == "none"

\* The fields of the TransferRequest and the values a field-change may carry.
FieldValues(field) ==
  CASE field = "recipient" -> Recipients
    [] field = "value" -> 0..MaxValue
    [] field = "gas" -> 0..MaxGas
    [] field = "gasPrice" -> 0..MaxGas
    [] field = "data" -> {"", "0x00"}
    [] field = "sender" -> {"0x00sender"}
    [] field = "tag" -> {"ETH"}
    [] field = "extras" -> BOOLEAN

RequestFields == {"sender", "recipient", "value", "tag", "data", "gas", "gasPrice"}

VARIABLES
  wizard       \* wizard[w]: the store of wizard instance w, with its history

\* The state of the other components: each is followed on its own.
VARIABLES
  terror,      \* api/transport/error.js: the TransportErrors built, with their arguments
  options,     \* Shapeshift OptionsStep: the events handled and the store calls made
  chain,       \* ChainMiddleware: the actions dispatched, each with what the middleware did
  lookup,      \* dappreg urlToHash: the calls made, each with its backend calls
  registry,    \* dapps/registry root reducer: the last action reduced, with the state before and after
  update       \* dappreg updateDapp: the call made, its promise chains and its backend calls

xvars == <<terror, options, chain, lookup, registry, update>>

vars == <<hvars, wizard, xvars>>

\* new TransferStore(api, props): the request is pre-populated from the
\* selected account, the wizard is at its first stage.
NewStore(balance) ==
  [ opened |-> TRUE, closed |-> FALSE,
    stage |-> 0, extras |-> FALSE, sending |-> FALSE, rejected |-> FALSE,
    txhash |-> None, operation |-> None,
    sender |-> "0x00sender", recipient |-> "", value |-> 0, tag |-> "ETH",
    data |-> "", gas |-> 1, gasPrice |-> 1,
    balance |-> balance,
    pc |-> "idle", polls |-> 0,
    \* history: what the wizard did and what the backend answered
    attempts |-> 0, submitCalls |-> 0, outcomes |-> <<>>,
    hashReturned |-> None, receiptSeen |-> FALSE, notified |-> 0,
    last |-> [act |-> "open", accepted |-> TRUE] ]

Unopened == [NewStore(0) EXCEPT !.opened = FALSE]

Request(s) == [f \in RequestFields |-> s[f]]

(***************************************************************************)
(* The Validation Layer: per-field errors of the current field values.     *)
(***************************************************************************)
IsAddress(a) == a # ""

GasCost(s) == s.gas * s.gasPrice

\* Validate with "unless zero" read as "and not zero": a zero value is an error
ValidateRejectingZero(s) ==
  [ recipientError |-> ~IsAddress(s.recipient),
    valueError |-> s.value = 0 \/ s.value > s.balance,
    totalError |-> s.value + GasCost(s) > s.balance,
    gasError |-> ~(s.gas > 0),
    priceError |-> ~(s.gasPrice > 0) ]

\* recipient: a well-formed address; value: <= balance, the gas cost accounted
\* for, unless zero; gas and gas price: positive integers.
Validate(s) ==
  [ recipientError |-> ~IsAddress(s.recipient),
    valueError |-> s.value # 0 /\ s.value > s.balance,
    totalError |-> s.value # 0 /\ s.value + GasCost(s) > s.balance,
    gasError |-> ~(s.gas > 0),
    priceError |-> ~(s.gasPrice > 0) ]

NoErrors(v) == \A f \in DOMAIN v : ~v[f]

\* store.isValid
isValid(s) == NoErrors(Validate(s))

(***************************************************************************)
(* The Transfer component: what it renders from the store.                 *)
(***************************************************************************)
\* renderPage without the "&& extras" of its second test
renderPageAnyStageOne(s) ==
  IF s.stage = 0 THEN "details"
  ELSE IF s.stage = 1 THEN "extras"
  ELSE "complete"

renderPage(s) ==
  IF s.stage = 0 THEN "details"
  ELSE IF s.stage = 1 /\ s.extras THEN "extras"
  ELSE "complete"

\* renderCompletePage: which step is shown
renderCompletePage(s) ==
  IF s.rejected THEN "rejected"
  ELSE IF s.sending THEN "busy"
  ELSE "completed"

\* <TxHash hash={ txhash } /> of the CompletedStep, showing the operation
TxHashShowingOperation(s) == s.operation

\* <TxHash hash={ txhash } /> of the CompletedStep
TxHash(s) == s.txhash

\* The buttons: disabled props of nextBtn and sendBtn
nextBtnAlwaysEnabled(s) == FALSE

nextBtnDisabled(s) == ~isValid(s)

sendBtnIgnoringValidity(s) == s.sending

sendBtnDisabled(s) == ~isValid(s) \/ s.sending

\* renderDialogActions with the Back button kept on the later stages
renderDialogActionsWithBack(s) ==
  CASE s.stage = 0 -> IF s.extras THEN {"cancel", "next"} ELSE {"cancel", "send"}
    [] s.stage = 1 -> IF s.extras THEN {"cancel", "prev", "send"} ELSE {"done", "prev"}
    [] OTHER -> {"done", "prev"}

\* renderDialogActions with Send kept on the later stages
renderDialogActionsWithSend(s) ==
  CASE s.stage = 0 -> IF s.extras THEN {"cancel", "next"} ELSE {"cancel", "send"}
    [] s.stage = 1 -> IF s.extras THEN {"cancel", "prev", "send"} ELSE {"done", "send"}
    [] OTHER -> {"done", "send"}

\* renderDialogActions with case 1 not looking at extras
renderDialogActionsStageOneAlways(s) ==
  CASE s.stage = 0 -> IF s.extras THEN {"cancel", "next"} ELSE {"cancel", "send"}
    [] s.stage = 1 -> {"cancel", "prev", "send"}
    [] OTHER -> {"done"}

\* renderDialogActions: the buttons of the stage
renderDialogActions(s) ==
  CASE s.stage = 0 -> IF s.extras THEN {"cancel", "next"} ELSE {"cancel", "send"}
    [] s.stage = 1 -> IF s.extras THEN {"cancel", "prev", "send"} ELSE {"done"}
    [] OTHER -> {"done"}

\* every handler reachable whatever is rendered or disabled
ClickableAlways(s, button) == TRUE

\* A click on a button reaches its handler when the button is rendered and
\* not disabled.
Clickable(s, button) ==
  /\ button \in renderDialogActions(s)
  /\ button = "next" => ~nextBtnDisabled(s)
  /\ button = "send" => ~sendBtnDisabled(s)

\* The fields whose onChange the rendered page wires to store.onUpdateDetails:
\* Details (recipient, sender, tag, value, the extras switch), Extras (data, gas).
Editable(s) ==
  CASE renderPage(s) = "details" -> {"recipient", "sender", "tag", "value", "extras"}
    [] renderPage(s) = "extras" -> {"data", "gas", "gasPrice"}
    [] OTHER -> {}

\* The WizardStage the component shows.
WizardStage(s) ==
  CASE renderPage(s) = "details" -> "Details"
    [] renderPage(s) = "extras" -> "Extras"
    [] OTHER ->
         CASE renderCompletePage(s) = "rejected" -> "Rejected"
           [] renderCompletePage(s) = "busy" -> "Submitting"
           [] OTHER -> "Completed"

(***************************************************************************)
(* The store: the Wizard State Machine and the Submission Pipeline.        *)
(***************************************************************************)
onNext(s) == [s EXCEPT !.stage = s.stage + 1]

onPrev(s) == [s EXCEPT !.stage = s.stage - 1]

\* A field-change: the field takes the value; the ValidationResult is
\* recomputed from the fields (Validate), never stored.
onUpdateDetails(s, field, v) == [s EXCEPT ![field] = v]

\* Send: the wizard enters Submitting and the pipeline starts with the gas
\* estimate.
onSend(s) ==
  [onNext(s) EXCEPT !.sending = TRUE, !.pc = "estimating", !.attempts = @ + 1]

\* store.handleClose: the machine is abandoned as it is.
storeHandleClose(s) == s

\* The estimate arrived: the multiplier is applied and the transaction is
\* submitted for signing.
submitEstimated(s) ==
  [s EXCEPT !.pc = "signing", !.submitCalls = @ + 1]

\* The submission yielded a transaction hash: the receipt is polled for.
hashObtained(s, h) ==
  [s EXCEPT !.txhash = h, !.hashReturned = h, !.pc = "polling",
            !.outcomes = Append(@, "hash")]

\* The receipt was observed: Completed.
receiptObserved(s) ==
  [onNext(s) EXCEPT !.sending = FALSE, !.receiptSeen = TRUE, !.pc = "done"]

\* The submission yielded a multi-owner pending-operation id: Completed.
operationReturned(s, op) ==
  [onNext(s) EXCEPT !.sending = FALSE, !.operation = op, !.pc = "done",
                    !.outcomes = Append(@, "operation")]

\* user-declined categories of the error taxonomy
IsUserDeclined(code) == code = REQUEST_REJECTED

\* The submission boundary: a user-declined error is the Rejected state, any
\* other is surfaced as a notification (newError) and the wizard stays in its
\* current stage, no longer busy.
onBackendError(s, code) ==
  IF IsUserDeclined(code)
    THEN [onNext(s) EXCEPT !.sending = FALSE, !.rejected = TRUE, !.pc = "done",
                           !.outcomes = Append(@, "rejection")]
    ELSE [s EXCEPT !.sending = FALSE, !.notified = code, !.pc = "done",
                   !.outcomes = Append(@, "error")]

(***************************************************************************)
(* Actions: the user's (field-change, next, back, send, close) and the     *)
(* backend's responses.                                                    *)
(***************************************************************************)
Open(s) == s.opened /\ ~s.closed

\* store = new TransferStore(...) as a property shared by the instances
storeOfShared(w) == "w1"

\* store = new TransferStore(this.context.api, this.props): a field of the
\* component instance, so every Transfer has a store of its own.
storeOf(w) == w

Did(w, s, act, accepted) ==
  wizard' = [wizard EXCEPT ![storeOf(w)] =
               [s EXCEPT !.last = [act |-> act, accepted |-> accepted]]]

UserChange(w, field, v) ==
  LET s == wizard[storeOf(w)] IN
  /\ Open(s)
  /\ IF field \in Editable(s)
       THEN Did(w, onUpdateDetails(s, field, v), "change", TRUE)
       ELSE Did(w, s, "change", FALSE)
  /\ UNCHANGED <<hvars, xvars>>

UserNext(w) ==
  LET s == wizard[storeOf(w)] IN
  /\ Open(s)
  /\ IF Clickable(s, "next")
       THEN Did(w, onNext(s), "next", TRUE)
       ELSE Did(w, s, "next", FALSE)
  /\ UNCHANGED <<hvars, xvars>>

UserBack(w) ==
  LET s == wizard[storeOf(w)] IN
  /\ Open(s)
  /\ IF Clickable(s, "prev")
       THEN Did(w, onPrev(s), "back", TRUE)
       ELSE Did(w, s, "back", FALSE)
  /\ UNCHANGED <<hvars, xvars>>

UserSend(w) ==
  LET s == wizard[storeOf(w)] IN
  /\ Open(s)
  /\ IF Clickable(s, "send")
       THEN Did(w, onSend(s), "send", TRUE)
       ELSE Did(w, s, "send", FALSE)
  /\ UNCHANGED <<hvars, xvars>>

\* handleClose calling store.onSend() for store.handleClose()
handleCloseSending(w) ==
  LET s == wizard[storeOf(w)] IN
  /\ Open(s)
  /\ Did(w, [onSend(s) EXCEPT !.closed = TRUE], "close", TRUE)
  /\ UNCHANGED <<hvars, xvars>>

\* Transfer.handleClose (Cancel, Close): store.handleClose(), then the
\* onClose prop, on which the parent takes the modal down.
handleClose(w) ==
  LET s == wizard[storeOf(w)] IN
  /\ Open(s)
  /\ Did(w, [storeHandleClose(s) EXCEPT !.closed = TRUE], "close", TRUE)
  /\ UNCHANGED <<hvars, xvars>>

EstimateArrived(w) ==
  LET s == wizard[storeOf(w)] IN
  /\ s.pc = "estimating"
  /\ Did(w, submitEstimated(s), "estimate", TRUE)
  /\ UNCHANGED <<hvars, xvars>>

EstimateFailed(w, code) ==
  LET s == wizard[storeOf(w)] IN
  /\ s.pc = "estimating"
  /\ Did(w, onBackendError(s, code), "error", TRUE)
  /\ UNCHANGED <<hvars, xvars>>

SubmitYieldedHash(w, h) ==
  LET s == wizard[storeOf(w)] IN
  /\ s.pc = "signing"
  /\ Did(w, hashObtained(s, h), "hash", TRUE)
  /\ UNCHANGED <<hvars, xvars>>

SubmitYieldedOperation(w, op) ==
  LET s == wizard[storeOf(w)] IN
  /\ s.pc = "signing"
  /\ Did(w, operationReturned(s, op), "operation", TRUE)
  /\ UNCHANGED <<hvars, xvars>>

SubmitFailed(w, code) ==
  LET s == wizard[storeOf(w)] IN
  /\ s.pc = "signing"
  /\ Did(w, onBackendError(s, code), "error", TRUE)
  /\ UNCHANGED <<hvars, xvars>>

PollPending(w) ==
  LET s == wizard[storeOf(w)] IN
  /\ s.pc = "polling"
  /\ s.polls < MaxPolls
  /\ Did(w, [s EXCEPT !.polls = @ + 1], "pending", TRUE)
  /\ UNCHANGED <<hvars, xvars>>

PollReceipt(w) ==
  LET s == wizard[storeOf(w)] IN
  /\ s.pc = "polling"
  /\ Did(w, receiptObserved(s), "receipt", TRUE)
  /\ UNCHANGED <<hvars, xvars>>

WizardNext(w) ==
  \/ \E field \in RequestFields \cup {"extras"} :
       \E v \in FieldValues(field) : UserChange(w, field, v)
  \/ UserNext(w)
  \/ UserBack(w)
  \/ UserSend(w)
  \/ handleClose(w)
  \/ EstimateArrived(w)
  \/ \E code \in EstimateErrors : EstimateFailed(w, code)
  \/ \E h \in Hashes : SubmitYieldedHash(w, h)
  \/ \E op \in Operations : SubmitYieldedOperation(w, op)
  \/ \E code \in SubmitErrors : SubmitFailed(w, code)
  \/ PollPending(w)
  \/ PollReceipt(w)

\* The other components at rest.
TErrorIdle == terror = <<>>

OptionsIdle == options = <<>>

ChainIdle == chain = <<>>

LookupIdle == lookup = <<>>

RegistryIdle == registry = <<>>

UpdateIdle == update = <<>>

XIdle ==
  /\ TErrorIdle /\ OptionsIdle /\ ChainIdle /\ LookupIdle
  /\ RegistryIdle /\ UpdateIdle

\* One wizard is open, on an account of any balance.
Init ==
  /\ HInit
  /\ XIdle
  /\ \E b \in 0..MaxBalance :
       wizard = [w \in Wizards |-> IF w = "w1" THEN NewStore(b) ELSE Unopened]

Next == \E w \in Wizards : WizardNext(w)

Spec == Init /\ [][Next]_vars

\* The event loop runs every answer the backend gave, and a transaction that
\* has a hash is mined: the receipt poll is answered with the receipt in the
\* end.
FairSpec == Spec /\ \A w \in Wizards : WF_vars(PollReceipt(w))

\* The submission helpers alone.
WizardsIdle == wizard = [w \in Wizards |-> Unopened]

DappregInit ==
  /\ HInit
  /\ WizardsIdle
  /\ XIdle

DappregNext == HNext /\ UNCHANGED <<wizard, xvars>>

DappregSpec == DappregInit /\ [][DappregNext]_vars

(***************************************************************************)
(* Properties of the submission helpers.                                   *)
(***************************************************************************)
\* ceil(x) of a non-negative BigNumber
Ceil(x) == Big((x.num + x.den - 1) \div x.den)

PostedAfterEstimate == hEstimate # NoGas /\ hPostedGas # NoGas

\* C1 as stated: whatever the helper, the gas limit of the posted transaction
\* is ceil(g * 1.2) for the estimate g.
C1_GasIsCeil ==
  PostedAfterEstimate => BigEq(hPostedGas, Ceil(Mul12(hEstimate)))

\* C1 amended: registerGHH, registerDapp, deleteDapp and setMeta post the
\* integer nearest to g * 1.2, a tie going up (an integer n with
\* n - 1/2 <= g * 1.2 < n + 1/2); updateDappOwner posts g * 1.2 itself,
\* not rounded.
C1_GasIsRounded ==
  PostedAfterEstimate =>
    IF hHelper = "updateDappOwner"
      THEN 10 * hPostedGas.num = 12 * hEstimate.num * hPostedGas.den
      ELSE /\ hPostedGas.den = 1
           /\ 10 * hPostedGas.num - 5 <= 12 * hEstimate.num
           /\ 12 * hEstimate.num < 10 * hPostedGas.num + 5

\* A transaction was posted for an estimate on which rounding to the nearest
\* integer and rounding up differ (here g * 1.2 = 7.2, posted 7).
C1_Witness ==
  /\ hHelper = "registerGHH"
  /\ hPc = "posting"
  /\ hEstimate = Big(6)
  /\ hPostedGas = Big(7)

Before(a, b) ==
  \A i \in 1..Len(hTrace) :
    hTrace[i] = b => \E j \in 1..(i - 1) : hTrace[j] = a

\* C2: postTransaction is called only after estimateGas has resolved, and a
\* receipt is polled for only after the hash has been obtained.
C2_Ordering ==
  /\ Before("estimate", "postTransaction")
  /\ Before("hash", "getReceipt")

\* A submission that went through every step of the pipeline.
C2_Witness ==
  /\ hPc = "done"
  /\ \E i \in 1..Len(hTrace) : hTrace[i] = "postTransaction"
  /\ \E i \in 1..Len(hTrace) : hTrace[i] = "getReceipt"

(***************************************************************************)
(* Properties of the Transfer wizard.                                      *)
(***************************************************************************)
Rank(stage) ==
  CASE stage = "Details" -> 0
    [] stage = "Extras" -> 1
    [] stage = "Submitting" -> 2
    [] OTHER -> 3

Has(s, outcome) == \E i \in 1..Len(s.outcomes) : s.outcomes[i] = outcome

Refused(s, act) == s.last = [act |-> act, accepted |-> FALSE]

\* C3: in every step the stage of a wizard stays, or moves forward in the order
\* Details, Extras, Submitting, Completed/Rejected, or goes back from Extras to
\* Details; a back action in Submitting or later is refused and leaves the stage.
C3_StageOrder ==
  [][\A w \in Wizards :
       LET a == WizardStage(wizard[w])
           b == WizardStage(wizard'[w])
       IN /\ \/ a = b
             \/ Rank(b) > Rank(a)
             \/ a = "Extras" /\ b = "Details"
          /\ (wizard'[w].last.act = "back" /\ Rank(a) >= 2) =>
               (a = b /\ ~wizard'[w].last.accepted)]_vars

\* Back was tried while Submitting, and refused.
C3_Witness ==
  /\ WizardStage(wizard["w1"]) = "Submitting"
  /\ Refused(wizard["w1"], "back")

\* C4: a step that starts a submission (or shows Submitting) starts from a
\* state with no field error and no submission in progress.
C4_SendGated ==
  [][\A w \in Wizards :
       LET s == wizard[w]
           t == wizard'[w]
       IN (\/ t.attempts # s.attempts
           \/ WizardStage(s) # "Submitting" /\ WizardStage(t) = "Submitting")
          => (NoErrors(Validate(s)) /\ ~s.sending)]_vars

\* Send was tried with a field error present, and started nothing.
C4_Witness ==
  /\ WizardStage(wizard["w1"]) = "Details"
  /\ ~NoErrors(Validate(wizard["w1"]))
  /\ Refused(wizard["w1"], "send")
  /\ wizard["w1"].attempts = 0

\* C5: a value over the balance has a value error, and with it neither next nor
\* send takes the wizard out of Details.
C5_OverBalance ==
  /\ [](\A w \in Wizards :
          wizard[w].value > wizard[w].balance => Validate(wizard[w]).valueError)
  /\ [][\A w \in Wizards :
          (/\ WizardStage(wizard[w]) = "Details"
           /\ wizard[w].value > wizard[w].balance
           /\ wizard'[w].last.act \in {"next", "send"})
          => WizardStage(wizard'[w]) = "Details"]_vars

\* Next was tried with a value over the balance, and refused.
C5_Witness ==
  /\ WizardStage(wizard["w1"]) = "Details"
  /\ wizard["w1"].value > wizard["w1"].balance
  /\ wizard["w1"].extras
  /\ IsAddress(wizard["w1"].recipient)
  /\ Refused(wizard["w1"], "next")

C8_RejectedIsFinal ==
  /\ [](\A w \in Wizards :
          Has(wizard[w], "rejection") =>
            /\ WizardStage(wizard[w]) = "Rejected"
            /\ renderDialogActions(wizard[w]) = {"done"})
  /\ [][\A w \in Wizards :
          WizardStage(wizard[w]) = "Rejected" =>
            /\ wizard'[w].submitCalls = wizard[w].submitCalls
            /\ wizard'[w].attempts = wizard[w].attempts]_vars

\* Send was tried in Rejected, and refused.
C8_Witness ==
  /\ WizardStage(wizard["w1"]) = "Rejected"
  /\ wizard["w1"].submitCalls = 1
  /\ Refused(wizard["w1"], "send")

\* C9: Rejected is shown only after a rejection, Completed only after a
\* receipt was observed or a pending-operation id was returned.
C9_TerminalCauses ==
  \A w \in Wizards :
    LET s == wizard[w] IN
    /\ WizardStage(s) = "Rejected" => Has(s, "rejection")
    /\ WizardStage(s) = "Completed" => (s.receiptSeen \/ s.operation # None)

\* C10: once a submission has begun (Submitting or later), no step changes a
\* field of the request, and a field-change is accepted in Details and Extras
\* only.
C10_RequestFrozen ==
  [][\A w \in Wizards :
       LET s == wizard[w]
           t == wizard'[w]
       IN /\ (s.attempts > 0 \/ Rank(WizardStage(s)) >= 2) => Request(t) = Request(s)
          /\ (t.last = [act |-> "change", accepted |-> TRUE] /\ t # s)
               => WizardStage(s) \in {"Details", "Extras"}]_vars

\* A field-change was tried while Submitting, and refused.
C10_Witness ==
  /\ WizardStage(wizard["w1"]) = "Submitting"
  /\ Refused(wizard["w1"], "change")

\* C11: Completed and Rejected are terminal: no step takes a wizard out of
\* them, and the only button there is Close.
C11_Terminal ==
  /\ [](\A w \in Wizards :
          WizardStage(wizard[w]) \in {"Completed", "Rejected"} =>
            renderDialogActions(wizard[w]) = {"done"})
  /\ [][\A w \in Wizards :
          WizardStage(wizard[w]) \in {"Completed", "Rejected"} =>
            WizardStage(wizard'[w]) = WizardStage(wizard[w])]_vars

\* Next was tried in Completed, after the receipt, and refused.
C11_Witness ==
  /\ WizardStage(wizard["w1"]) = "Completed"
  /\ wizard["w1"].receiptSeen
  /\ Refused(wizard["w1"], "next")

Submission(s) ==
  [ pc |-> s.pc, attempts |-> s.attempts, submitCalls |-> s.submitCalls,
    sending |-> s.sending, rejected |-> s.rejected, txhash |-> s.txhash,
    operation |-> s.operation, outcomes |-> s.outcomes ]

\* C12: the step that closes a wizard starts no submission, makes no submit
\* call and leaves a submission that is under way as it is.
C12_CloseIsInert ==
  [][\A w \in Wizards :
       (~wizard[w].closed /\ wizard'[w].closed) =>
         Submission(wizard'[w]) = Submission(wizard[w])]_vars

\* A wizard closed while its transaction is with the signer.
C12_Witness ==
  /\ wizard["w1"].closed
  /\ wizard["w1"].last.act = "close"
  /\ wizard["w1"].pc = "signing"
  /\ wizard["w1"].submitCalls = 1

\* The stage the wizard was in when Send was accepted
StageBeforeSend(s) == IF s.extras THEN "Extras" ELSE "Details"

\* C14: after a backend error that is not user-declined the wizard has a
\* notification and is in the stage it was in before the send, and Rejected
\* is shown only after a user-declined error.
C14_BackForRetry ==
  \A w \in Wizards :
    Has(wizard[w], "error") =>
      /\ wizard[w].notified # 0
      /\ WizardStage(wizard[w]) = StageBeforeSend(wizard[w])
      /\ WizardStage(wizard[w]) # "Rejected"

InProgress(s) == s.pc \in {"estimating", "signing", "polling"}

Count(trace, call) == Cardinality({i \in 1..Len(trace) : trace[i] = call})

\* C13: an invocation estimates and posts at most once each; a failed backend
\* call is the last thing the invocation does and rejects the helper's
\* promise; when the failure came before the estimate nothing was posted.
C13_NoRetryNoSwallow ==
  /\ Count(hTrace, "estimateGas") <= 1
  /\ Count(hTrace, "postTransaction") <= 1
  /\ Count(hTrace, "error") <= 1
  /\ hPc = "failed" <=> Count(hTrace, "error") = 1
  /\ hPc = "failed" =>
       /\ hTrace[Len(hTrace)] = "error"
       /\ Count(hTrace, "estimate") = 0 => Count(hTrace, "postTransaction") = 0
       /\ Count(hTrace, "requestId") = 0

\* postTransaction itself failed: it was called once and not again.
C13_Witness ==
  /\ hPc = "failed"
  /\ Count(hTrace, "postTransaction") = 1
  /\ hTrace[Len(hTrace)] = "error"

\* estimateGas failed.
C13_WitnessEstimate ==
  /\ hPc = "failed"
  /\ Count(hTrace, "estimateGas") = 1
  /\ Count(hTrace, "estimate") = 0

(***************************************************************************)
(* api/transport/error.js: the error taxonomy and TransportError.          *)
(***************************************************************************)
\* ERROR_CODES: the object literal, its keys in the order they are written
ERROR_CODES ==
  << <<"UNSUPPORTED_REQUEST", -32000>>, <<"NO_WORK", -32001>>,
     <<"NO_AUTHOR", -32002>>, <<"NO_NEW_WORK", -32003>>,
     <<"NOT_ENOUGH_DATA", -32006>>, <<"UNKNOWN_ERROR", -32009>>,
     <<"TRANSACTION_ERROR", -32010>>, <<"EXECUTION_ERROR", EXECUTION_ERROR>>,
     <<"ACCOUNT_LOCKED", ACCOUNT_LOCKED>>, <<"PASSWORD_INVALID", -32021>>,
     <<"ACCOUNT_ERROR", -32023>>, <<"SIGNER_DISABLED", -32030>>,
     <<"DAPPS_DISABLED", -32031>>, <<"NETWORK_DISABLED", -32035>>,
     <<"REQUEST_REJECTED", REQUEST_REJECTED>>,
     <<"REQUEST_REJECTED_LIMIT", -32041>>, <<"REQUEST_NOT_FOUND", -32042>>,
     <<"COMPILATION_ERROR", -32050>>, <<"ENCRYPTION_ERROR", -32055>>,
     <<"FETCH_ERROR", -32060>>, <<"INVALID_PARAMS", -32602>> >>

\* Object.keys(ERROR_CODES)
ErrorKeys == [i \in 1..Len(ERROR_CODES) |-> ERROR_CODES[i][1]]

\* ERROR_CODES[key]
ErrorCode(key) ==
  ERROR_CODES[CHOOSE i \in 1..Len(ERROR_CODES) : ERROR_CODES[i][1] = key][2]

\* keys.find((key) => ERROR_CODES[key] === code): the first key that matches,
\* undefined when none does
FindKey(code) ==
  LET hits == {i \in 1..Len(ErrorKeys) : ErrorCode(ErrorKeys[i]) = code} IN
  IF hits = {} THEN "undefined"
  ELSE ErrorKeys[CHOOSE i \in hits : \A j \in hits : i <= j]

\* the type without the || '' default
ErrorTypeUndefaulted(code) == FindKey(code)

\* Object.keys(ERROR_CODES).find(...) || ''
ErrorType(code) == IF FindKey(code) = "undefined" THEN "" ELSE FindKey(code)

\* new TransportError(method, code, message); message is the text handed to
\* the Error constructor: method, code and message joined by ": "
TransportError(method, code, message) ==
  [ code |-> code,
    type |-> ErrorType(code),
    method |-> method,
    text |-> message,
    message |-> <<method, ": ", code, ": ", message>> ]

\* Codes the transport can be handed: those of the taxonomy and others
\* (a JSON-RPC parse error, a code of the gap in the taxonomy, zero)
TaxonomyCodes == {ERROR_CODES[i][2] : i \in 1..Len(ERROR_CODES)}
OtherCodes == {-32700, -32004, 0}
Methods == {"eth_sendTransaction", "parity_postTransaction", "eth_estimateGas"}
Messages == {"", "Account is locked"}

\* An error is constructed from a backend answer.
Construct(method, code, message) ==
  /\ terror = <<>>
  /\ terror' = << [ method |-> method, code |-> code, message |-> message,
                    error |-> TransportError(method, code, message) ] >>
  /\ UNCHANGED <<hvars, wizard, options, chain, lookup, registry, update>>

ErrorInit == HInit /\ WizardsIdle /\ XIdle

ErrorNext ==
  \E method \in Methods, code \in TaxonomyCodes \cup OtherCodes,
     message \in Messages : Construct(method, code, message)

ErrorSpec == ErrorInit /\ [][ErrorNext]_vars

\* The names of the taxonomy whose value is the code
NamesOf(code) == {ErrorKeys[i] : i \in {j \in 1..Len(ErrorKeys) : ErrorCode(ErrorKeys[j]) = code}}

\* C15: the error carries code, method and message as given; its type is the
\* one name of the taxonomy with that code, or "" when there is none; no code
\* has two names.
C15_TypeOfCode ==
  /\ \A code \in TaxonomyCodes : Cardinality(NamesOf(code)) = 1
  /\ \A i \in 1..Len(terror) :
       /\ terror[i].error.code = terror[i].code
       /\ terror[i].error.method = terror[i].method
       /\ terror[i].error.text = terror[i].message
       /\ IF terror[i].code \in TaxonomyCodes
            THEN NamesOf(terror[i].code) = {terror[i].error.type}
            ELSE terror[i].error.type = ""

\* An error with a code of the taxonomy was built.
C15_Witness ==
  /\ Len(terror) = 1
  /\ terror[1].code = ACCOUNT_LOCKED
  /\ terror[1].error.type = "ACCOUNT_LOCKED"
  /\ terror[1].error.text = "Account is locked"

\* An error with a code outside the taxonomy was built.
C15_WitnessOutside ==
  /\ Len(terror) = 1
  /\ terror[1].code \notin TaxonomyCodes
  /\ terror[1].error.type = ""

(***************************************************************************)
(* Two Transfer dialogs mounted at once.  Each Transfer instance builds    *)
(* its own TransferStore; the user and the backend act on either, in any   *)
(* order.  The fields edited are the recipient and the extras switch.      *)
(***************************************************************************)
MultiFields == {"recipient", "extras"}

MultiWizardNext(w) ==
  \/ \E field \in MultiFields :
       \E v \in FieldValues(field) : UserChange(w, field, v)
  \/ UserNext(w)
  \/ UserBack(w)
  \/ UserSend(w)
  \/ handleClose(w)
  \/ EstimateArrived(w)
  \/ \E code \in EstimateErrors : EstimateFailed(w, code)
  \/ \E h \in Hashes : SubmitYieldedHash(w, h)
  \/ \E op \in Operations : SubmitYieldedOperation(w, op)
  \/ \E code \in SubmitErrors : SubmitFailed(w, code)
  \/ PollPending(w)
  \/ PollReceipt(w)

MultiInit ==
  /\ HInit
  /\ XIdle
  /\ wizard = [w \in Wizards |-> NewStore(MaxBalance)]

MultiNext == \E w \in Wizards : MultiWizardNext(w)

MultiSpec == MultiInit /\ [][MultiNext]_vars

\* C16: a step of one wizard, a user action or a backend answer, leaves
\* every other wizard's stage, fields, errors and outcome as they were.
C16_Isolation ==
  [][\A w \in Wizards :
       MultiWizardNext(w) =>
         \A v \in Wizards \ {w} : wizard'[v] = wizard[v]]_vars

\* Both wizards have a submission behind them, with different results.
C16_Witness ==
  /\ wizard["w1"].txhash = "0xh1"
  /\ WizardStage(wizard["w1"]) = "Completed"
  /\ WizardStage(wizard["w2"]) = "Rejected"
  /\ wizard["w2"].txhash = None

(***************************************************************************)
(* modals/Shapeshift/OptionsStep: the event handlers of the component.     *)
(* The component's own file is not part of the sources at hand; its test   *)
(* (optionsSteps.spec.js) is, and drives the handlers below with a stubbed *)
(* store.  options is the log of the events handled, each with the store   *)
(* calls it made.                                                          *)
(***************************************************************************)
MaxEvents == 3

Events == {"null", "event"}
RefundAddresses == {"refundAddress", "", "0x1234567890123456789012345678901234567890"}
CoinSymbols == {"XMR", "BTC"}
CoinIndexes == {0, 1}

StoreCall(method, args) == [method |-> method, args |-> args]

\* onChangeRefundAddress = (event, refundAddress) => store.setRefundAddress(refundAddress)
onChangeRefundAddress(event, refundAddress) ==
  << StoreCall("setRefundAddress", <<refundAddress>>) >>

\* onSelectCoin handing the event to the store
onSelectCoinPassingEvent(event, index, coinSymbol) ==
  << StoreCall("setCoinSymbol", <<event>>) >>

\* onSelectCoin = (event, index, coinSymbol) => store.setCoinSymbol(coinSymbol)
onSelectCoin(event, index, coinSymbol) ==
  << StoreCall("setCoinSymbol", <<coinSymbol>>) >>

\* onToggleAcceptTerms = () => store.toggleAcceptTerms()
onToggleAcceptTerms == << StoreCall("toggleAcceptTerms", <<>>) >>

Handled(handler, args, calls) ==
  /\ Len(options) < MaxEvents
  /\ options' = Append(options, [handler |-> handler, args |-> args, calls |-> calls])
  /\ UNCHANGED <<hvars, wizard, terror, chain, lookup, registry, update>>

\* instance.onChangeRefundAddress(event, value)
ChangeRefundAddress(event, v) ==
  Handled("onChangeRefundAddress", <<event, v>>, onChangeRefundAddress(event, v))

\* instance.onSelectCoin(event, index, symbol)
SelectCoin(event, index, symbol) ==
  Handled("onSelectCoin", <<event, index, symbol>>, onSelectCoin(event, index, symbol))

\* instance.onToggleAcceptTerms()
ToggleAcceptTerms ==
  Handled("onToggleAcceptTerms", <<>>, onToggleAcceptTerms)

OptionsInit == HInit /\ WizardsIdle /\ XIdle

OptionsNext ==
  \/ \E event \in Events, v \in RefundAddresses : ChangeRefundAddress(event, v)
  \/ \E event \in Events, index \in CoinIndexes, symbol \in CoinSymbols :
       SelectCoin(event, index, symbol)
  \/ ToggleAcceptTerms

OptionsSpec == OptionsInit /\ [][OptionsNext]_vars

MaxActions == 4

DEFAULT_NETCHAIN == "(unknown)"
Undefined == "undefined"
NetChains == {"kovan", "foundation", DEFAULT_NETCHAIN}

Action(type, collection, netChain) ==
  [type |-> type, collection |-> collection, netChain |-> netChain]

\* The actions other code dispatches: statusCollection without a collection,
\* with a collection that has no netChain, an empty one or a chain's name;
\* and actions of another type, one of them carrying a collection too.
Actions ==
  {Action("statusCollection", FALSE, Undefined)}
    \cup {Action("statusCollection", TRUE, c) : c \in NetChains \cup {Undefined, ""}}
    \cup {Action("statusBlockNumber", FALSE, Undefined),
          Action("statusLogs", TRUE, "kovan")}

\* showSnackbar(`Switched to ${newChain}. ...`, RELOAD_TIMEOUT)
showSnackbar(newChain) == Action("showSnackbar", FALSE, newChain)

\* if (collection && collection.netChain)
CarriesNetChain(action) ==
  action.collection /\ action.netChain \notin {Undefined, ""}

\* the test of line 35 without its second half
IsSwitchFromAnyChain(netChain, action) ==
  /\ action.type = "statusCollection"
  /\ CarriesNetChain(action)
  /\ action.netChain # netChain

\* The three nested conditions of the middleware (lines 28, 31, 35)
IsSwitch(netChain, action) ==
  /\ action.type = "statusCollection"
  /\ CarriesNetChain(action)
  /\ action.netChain # netChain /\ netChain # DEFAULT_NETCHAIN

\* statusReducer: statusCollection merges the collection into nodeStatus
Reduce(netChain, action) ==
  IF /\ action.type = "statusCollection"
     /\ action.collection
     /\ action.netChain # Undefined
    THEN action.netChain
    ELSE netChain

\* the middleware returning inside the if of line 35, before next(action)
toMiddlewareReturningEarly(netChain, action) ==
  IF IsSwitch(netChain, action)
    THEN [ action |-> action, before |-> netChain,
           received |-> <<action, showSnackbar(action.netChain)>>,
           nexted |-> <<showSnackbar(action.netChain)>>,
           effects |-> <<"showSnackbar", "setTimeout", "fetchAllBalances">>,
           after |-> Reduce(netChain, showSnackbar(action.netChain)) ]
    ELSE [ action |-> action, before |-> netChain,
           received |-> <<action>>,
           nexted |-> <<action>>,
           effects |-> <<>>,
           after |-> Reduce(netChain, action) ]

\* (store) => (next) => (action) => { ... }: on a switch the snackbar action is
\* dispatched (it comes back through the middleware, which hands it to
\* next), the reload timer is set and the balances are fetched; then
\* next(action).
toMiddleware(netChain, action) ==
  IF IsSwitch(netChain, action)
    THEN [ action |-> action, before |-> netChain,
           received |-> <<action, showSnackbar(action.netChain)>>,
           nexted |-> <<showSnackbar(action.netChain), action>>,
           effects |-> <<"showSnackbar", "setTimeout", "fetchAllBalances">>,
           after |-> Reduce(Reduce(netChain, showSnackbar(action.netChain)), action) ]
    ELSE [ action |-> action, before |-> netChain,
           received |-> <<action>>,
           nexted |-> <<action>>,
           effects |-> <<>>,
           after |-> Reduce(netChain, action) ]

\* store.getState().nodeStatus.netChain
NetChain == IF chain = <<>> THEN DEFAULT_NETCHAIN ELSE chain[Len(chain)].after

IsReload(entry) == entry.action.type = "reload"
Scheduled(entry) == Count(entry.effects, "setTimeout") > 0

\* A reload timer is set and the page has not been reloaded since
Pending ==
  \E i \in 1..Len(chain) :
    /\ Scheduled(chain[i])
    /\ \A j \in (i + 1)..Len(chain) : ~IsReload(chain[j])

\* store.dispatch(action) by the rest of the program
Dispatch(action) ==
  /\ Len(chain) < MaxActions
  /\ chain' = Append(chain, toMiddleware(NetChain, action))
  /\ UNCHANGED <<hvars, wizard, terror, options, lookup, registry, update>>

\* The timer runs out: window.location.reload().  The page starts again: its
\* store is new and the timers of the page before are gone.
TimerFired ==
  /\ Pending
  /\ chain' = Append(chain, [ action |-> Action("reload", FALSE, Undefined),
                              before |-> NetChain,
                              received |-> <<>>, nexted |-> <<>>,
                              effects |-> <<"reload">>,
                              after |-> DEFAULT_NETCHAIN ])
  /\ UNCHANGED <<hvars, wizard, terror, options, lookup, registry, update>>

ChainInit == HInit /\ WizardsIdle /\ XIdle

ChainNext ==
  \/ \E action \in Actions : Dispatch(action)
  \/ TimerFired

ChainSpec == ChainInit /\ [][ChainNext]_vars

\* A timer that was set runs out (unless the page is left, which ends the
\* program).
ChainFairSpec == ChainSpec /\ WF_vars(TimerFired)

\* C19: the snackbar, the reload timer and the balances refetch happen
\* together, once each, exactly for a statusCollection that carries a netChain
\* different from the store's when the store's is not the placeholder; the
\* same report dispatched again right after sets no second timer, and two
\* timers for the same chain have a change of chain between them; a reload
\* happens only with a timer set, and a timer set leads to the reload.
C19_ReloadOnSwitch ==
  /\ [](\A i \in 1..Len(chain) :
          LET e == chain[i] IN
          ~IsReload(e) =>
            /\ Scheduled(e) <=>
                 /\ e.action.type = "statusCollection"
                 /\ CarriesNetChain(e.action)
                 /\ e.action.netChain # e.before
                 /\ e.before # DEFAULT_NETCHAIN
            /\ IF Scheduled(e)
                 THEN /\ Count(e.effects, "setTimeout") = 1
                      /\ Count(e.effects, "showSnackbar") = 1
                      /\ Count(e.effects, "fetchAllBalances") = 1
                 ELSE e.effects = <<>>
            /\ (i < Len(chain) /\ chain[i + 1].action = e.action) =>
                 ~Scheduled(chain[i + 1])
            /\ \A j \in (i + 1)..Len(chain) :
                 (/\ Scheduled(e) /\ Scheduled(chain[j])
                  /\ chain[j].action.netChain = e.action.netChain) =>
                   \E k \in i..(j - 1) : chain[k].after # e.action.netChain)
  /\ [][chain' # chain /\ IsReload(chain'[Len(chain')]) => Pending]_vars
  /\ (Pending ~> ~Pending)

\* The node went from foundation to kovan: one timer, then the same report
\* again without a second one.
C19_Witness ==
  /\ Len(chain) >= 3
  /\ chain[1].action = Action("statusCollection", TRUE, "foundation")
  /\ ~Scheduled(chain[1])
  /\ chain[2].action = Action("statusCollection", TRUE, "kovan")
  /\ Scheduled(chain[2])
  /\ chain[3].action = chain[2].action
  /\ ~Scheduled(chain[3])

\* The page was reloaded after a switch.
C19_WitnessReload ==
  /\ Len(chain) >= 2
  /\ IsReload(chain[Len(chain)])
  /\ Scheduled(chain[Len(chain) - 1])

(***************************************************************************)
(* dappreg urlToHash(api, instance, url).  lookup holds the call made:     *)
(* its argument, where its promise chain stands, the backend calls made,   *)
(* what they answered and what the returned promise settled with.          *)
(***************************************************************************)
INVALID_URL_HASH == "0xc5d2460186f7233c927e7db2dcc703c0e500b653ca82273b7bfad8045d85a470"
ZERO_ADDRESS == "0x0000000000000000000000000000000000000000"

Null == "null"
Urls == {Null, "", "https://parity.io/logo.png", "github.com/paritytech/parity", "not a url"}
ContentHashes == {INVALID_URL_HASH, "0xaa11", "0xbb22", "0xcc33"}
Owners == {ZERO_ADDRESS, "0x00a329c0648769a73afac7f9381e08fb43dbea72",
           "0x1234567890123456789012345678901234567890"}
Repos == {"", "paritytech/parity"}
Commits == {"0x00", "0xabcdef"}

\* What the promise settles with: null, { hash, registered } or an error
Settled(kind, hash, registered, error) ==
  [kind |-> kind, hash |-> hash, registered |-> registered, error |-> error]

Unsettled == Settled("pending", None, FALSE, None)

\* registered taken from the owner being the zero address
RegisteredWhenUnowned(contentHashOwner) == contentHashOwner = ZERO_ADDRESS

\* const registered = (contentHashOwner !== ZERO_ADDRESS)
Registered(contentHashOwner) == contentHashOwner # ZERO_ADDRESS

\* if (!url || !url.length)
NoUrl(url) == url = Null \/ url = ""

\* urlToHash is called: without a URL it returns Promise.resolve(null), else
\* it calls api.parity.hashContent(url).
UrlToHash(url) ==
  /\ lookup = <<>>
  /\ lookup' = << IF NoUrl(url)
                    THEN [ url |-> url, pc |-> "resolved", trace |-> <<>>,
                           contentHash |-> None, entry |-> <<>>,
                           result |-> Settled("null", None, FALSE, None) ]
                    ELSE [ url |-> url, pc |-> "hashing",
                           trace |-> <<"hashContent">>,
                           contentHash |-> None, entry |-> <<>>,
                           result |-> Unsettled ] >>
  /\ UNCHANGED <<hvars, wizard, terror, options, chain, registry, update>>

\* hashContent resolved: the invalid hash throws, any other is looked up with
\* instance.entries.call({}, [contentHash]).
HashContentReturned(contentHash) ==
  /\ Len(lookup) = 1
  /\ lookup[1].pc = "hashing"
  /\ lookup' = << IF contentHash = INVALID_URL_HASH
                    THEN [lookup[1] EXCEPT
                            !.contentHash = contentHash,
                            !.pc = "rejected",
                            !.result = Settled("error", None, FALSE, "is not a valid URL")]
                    ELSE [lookup[1] EXCEPT
                            !.contentHash = contentHash,
                            !.pc = "querying",
                            !.trace = Append(@, "entries.call")] >>
  /\ UNCHANGED <<hvars, wizard, terror, options, chain, registry, update>>

\* entries.call resolved with [accountSlashRepo, commit, contentHashOwner]
EntriesReturned(accountSlashRepo, commit, contentHashOwner) ==
  /\ Len(lookup) = 1
  /\ lookup[1].pc = "querying"
  /\ lookup' = << [lookup[1] EXCEPT
                     !.entry = <<accountSlashRepo, commit, contentHashOwner>>,
                     !.pc = "resolved",
                     !.result = Settled("value", lookup[1].contentHash,
                                        Registered(contentHashOwner), None)] >>
  /\ UNCHANGED <<hvars, wizard, terror, options, chain, registry, update>>

\* hashContent or entries.call rejected: there is no .catch, the returned
\* promise rejects with the backend's error.
LookupFailed ==
  /\ Len(lookup) = 1
  /\ lookup[1].pc \in {"hashing", "querying"}
  /\ lookup' = << [lookup[1] EXCEPT
                     !.pc = "rejected",
                     !.result = Settled("error", None, FALSE, "backend")] >>
  /\ UNCHANGED <<hvars, wizard, terror, options, chain, registry, update>>

UrlInit == HInit /\ WizardsIdle /\ XIdle

UrlNext ==
  \/ \E url \in Urls : UrlToHash(url)
  \/ \E contentHash \in ContentHashes : HashContentReturned(contentHash)
  \/ \E accountSlashRepo \in Repos, commit \in Commits, contentHashOwner \in Owners :
       EntriesReturned(accountSlashRepo, commit, contentHashOwner)
  \/ LookupFailed

UrlSpec == UrlInit /\ [][UrlNext]_vars

\* C20: without a URL the result is null and no backend call is made; with
\* the invalid hash the call fails as "not a valid URL" and the registry is
\* never asked; when both backend calls answer, the result is the content
\* hash with registered true exactly when the entry's owner is not the zero
\* address.
C20_UrlToHash ==
  \A i \in 1..Len(lookup) :
    LET c == lookup[i] IN
    /\ NoUrl(c.url) =>
         /\ c.pc = "resolved" /\ c.result.kind = "null" /\ c.trace = <<>>
    /\ c.contentHash = INVALID_URL_HASH =>
         /\ c.pc = "rejected"
         /\ c.result.kind = "error" /\ c.result.error = "is not a valid URL"
         /\ Count(c.trace, "entries.call") = 0
    /\ (c.pc = "resolved" /\ ~NoUrl(c.url)) =>
         /\ c.trace = <<"hashContent", "entries.call">>
         /\ c.result.kind = "value"
         /\ c.result.hash = c.contentHash /\ c.contentHash \in ContentHashes
         /\ c.result.registered <=> c.entry[3] # ZERO_ADDRESS

\* A hash nobody owns was looked up.
C20_Witness ==
  /\ Len(lookup) = 1
  /\ lookup[1].pc = "resolved"
  /\ lookup[1].result.kind = "value"
  /\ lookup[1].entry[3] = ZERO_ADDRESS
  /\ ~lookup[1].result.registered

\* The backend could not hash the URL.
C20_WitnessInvalid ==
  /\ Len(lookup) = 1
  /\ lookup[1].contentHash = INVALID_URL_HASH
  /\ lookup[1].pc = "rejected"

\* urlToHash was called with null.
C20_WitnessNull ==
  /\ Len(lookup) = 1
  /\ lookup[1].url = Null
  /\ lookup[1].result.kind = "null"

(***************************************************************************)
(* ChainMiddleware as a link of the middleware chain.                      *)
(***************************************************************************)
RECURSIVE NextedUpTo(_)
\* Every action handed to next while the first n dispatches were handled
NextedUpTo(n) ==
  IF n = 0 THEN <<>> ELSE NextedUpTo(n - 1) \o chain[n].nexted

\* The actions the rest of the program dispatched, in the order of dispatch
Dispatched == [i \in 1..Len(chain) |-> chain[i].action]

IsOwnSnackbar(action) == action.type = "showSnackbar"
NotReload(action) == action.type # "reload"
NotOwnSnackbar(action) == ~IsOwnSnackbar(action)

Slice(type, n) == SubSeq(type, 1, IF n < Len(type) THEN n ELSE Len(type))

T_accounts == <<"a", "c", "c", "o", "u", "n", "t", "s">>
T_lookup == <<"l", "o", "o", "k", "u", "p">>
T_events == <<"e", "v", "e", "n", "t", "s">>
T_register == <<"r", "e", "g", "i", "s", "t", "e", "r">>
T_set_contract == <<"s", "e", "t", " ", "c", "o", "n", "t", "r", "a", "c", "t">>
T_set_fee == <<"s", "e", "t", " ", "f", "e", "e">>
T_set_owner == <<"s", "e", "t", " ", "o", "w", "n", "e", "r">>

\* The types of the actions dispatched: the known names, types with a known
\* prefix, and near misses
ActionTypes ==
  { <<"a", "c", "c", "o", "u", "n", "t", "s", " ", "i", "n", "f", "o">>,  \* 'accounts info'
    <<"a", "c", "c", "o", "u", "n", "t", "s">>,  \* 'accounts'
    <<"a", "c", "c", "o", "u", "n", "t">>,  \* 'account'
    <<"s", "e", "t", " ", "c", "o", "n", "t", "r", "a", "c", "t">>,  \* 'set contract'
    <<"s", "e", "t", " ", "c", "o", "n", "t", "r", "a", "c", "t", "s">>,  \* 'set contracts'
    <<"s", "e", "t", " ", "f", "e", "e">>,  \* 'set fee'
    <<"s", "e", "t", " ", "o", "w", "n", "e", "r">>,  \* 'set owner'
    <<"l", "o", "o", "k", "u", "p", " ", "s", "t", "a", "r", "t">>,  \* 'lookup start'
    <<"l", "o", "o", "k", "u">>,  \* 'looku'
    <<"e", "v", "e", "n", "t", "s", " ", "s", "u", "b", "s", "c", "r", "i", "b", "e">>,  \* 'events subscribe'
    <<"r", "e", "g", "i", "s", "t", "e", "r", "e", "d">>,  \* 'registered'
    <<"u", "n", "k", "n", "o", "w", "n">>,  \* 'unknown'
    <<>>  \* ''
  }

SubStates == {"init", "next"}
Payloads == {Undefined, "0x01"}
RegistryFields == {"accounts", "contract", "fee", "owner", "lookup", "events", "register"}

\* initialState: the sub-reducers' initial states, the rest null
initialState ==
  [ accounts |-> "init", contract |-> Null, fee |-> Null, owner |-> Null,
    lookup |-> "init", events |-> "init", register |-> "init" ]

RegistryAction(type, contract, fee, owner) ==
  [type |-> type, contract |-> contract, fee |-> fee, owner |-> owner]

\* The actions: at most one of contract, fee, owner is set
RegistryActions ==
  { RegistryAction(type, p[1], p[2], p[3]) :
      type \in ActionTypes,
      p \in { <<Undefined, Undefined, Undefined>>, <<"0x01", Undefined, Undefined>>,
              <<Undefined, "0x01", Undefined>>, <<Undefined, Undefined, "0x01">> } }

\* the reducer with 'set owner' clearing the fee as well
rootReducerClearingFee(state, action, sub) ==
  IF Slice(action.type, 8) = T_accounts THEN [state EXCEPT !.accounts = sub]
  ELSE IF action.type = T_set_contract THEN [state EXCEPT !.contract = action.contract]
  ELSE IF action.type = T_set_fee THEN [state EXCEPT !.fee = action.fee]
  ELSE IF action.type = T_set_owner
    THEN [state EXCEPT !.owner = action.owner, !.fee = Null]
  ELSE IF Slice(action.type, 6) = T_lookup THEN [state EXCEPT !.lookup = sub]
  ELSE IF Slice(action.type, 6) = T_events THEN [state EXCEPT !.events = sub]
  ELSE IF Slice(action.type, 8) = T_register THEN [state EXCEPT !.register = sub]
  ELSE state

\* export default (state = initialState, action) => { ... }; sub is what the
\* sub-reducer called returns.
rootReducer(state, action, sub) ==
  IF Slice(action.type, 8) = T_accounts THEN [state EXCEPT !.accounts = sub]
  ELSE IF action.type = T_set_contract THEN [state EXCEPT !.contract = action.contract]
  ELSE IF action.type = T_set_fee THEN [state EXCEPT !.fee = action.fee]
  ELSE IF action.type = T_set_owner THEN [state EXCEPT !.owner = action.owner]
  ELSE IF Slice(action.type, 6) = T_lookup THEN [state EXCEPT !.lookup = sub]
  ELSE IF Slice(action.type, 6) = T_events THEN [state EXCEPT !.events = sub]
  ELSE IF Slice(action.type, 8) = T_register THEN [state EXCEPT !.register = sub]
  ELSE state

\* The store's state: initialState until an action has been reduced
RegistryState == IF registry = <<>> THEN initialState ELSE registry[1].after

\* store.dispatch(action): the state becomes reducer(state, action)
RegistryDispatch(action, sub) ==
  /\ registry' = << [ before |-> RegistryState, action |-> action,
                      after |-> rootReducer(RegistryState, action, sub) ] >>
  /\ UNCHANGED <<hvars, wizard, terror, options, chain, lookup, update>>

RegistryInit == HInit /\ WizardsIdle /\ XIdle

RegistryNext ==
  \E action \in RegistryActions, sub \in SubStates : RegistryDispatch(action, sub)

RegistrySpec == RegistryInit /\ [][RegistryNext]_vars

\* The top-level fields in which two states differ
ChangedFields(before, after) == {f \in RegistryFields : after[f] # before[f]}

\* The type is one of the three names or starts with one of the four prefixes
KnownType(type) ==
  \/ type \in {T_set_contract, T_set_fee, T_set_owner}
  \/ \E prefix \in {T_accounts, T_lookup, T_events, T_register} :
       /\ Len(type) >= Len(prefix)
       /\ \A k \in 1..Len(prefix) : type[k] = prefix[k]

\* C22: a reduction changes at most one of the seven top-level fields, and
\* none when the action's type is no known name and has no known prefix.
C22_OneFieldAtMost ==
  \A i \in 1..Len(registry) :
    LET e == registry[i] IN
    /\ Cardinality(ChangedFields(e.before, e.after)) <= 1
    /\ DOMAIN e.after = RegistryFields
    /\ ~KnownType(e.action.type) => e.after = e.before

\* 'set owner' changed the owner of a state whose fee was set before.
C22_Witness ==
  /\ Len(registry) = 1
  /\ registry[1].action.type = T_set_owner
  /\ registry[1].before.fee = "0x01"
  /\ ChangedFields(registry[1].before, registry[1].after) = {"owner"}

\* An action of an unknown type went through with the state as it was.
C22_WitnessUnknown ==
  /\ Len(registry) = 1
  /\ ~KnownType(registry[1].action.type)
  /\ registry[1].before # initialState
  /\ registry[1].after = registry[1].before

(***************************************************************************)
(* dappreg updateDapp(dappId, dappOwner, updates, dappRegInstance,         *)
(* ghhRegInstance).  The call starts one promise chain per type set in     *)
(* updates (content, image, manifest), all over one options object, and    *)
(* then turns to updates.owner.  update holds the call: its argument, the  *)
(* shared options.gas, each chain with the backend calls it made, and what *)
(* the call itself ended with.  urlToHash and registerGHH, followed step   *)
(* by step on their own, are taken here by their outcome.                  *)
(***************************************************************************)
MaxMetaEstimate == 2

UpdateTypes == <<"content", "image", "manifest">>
TypeNames == {UpdateTypes[i] : i \in 1..Len(UpdateTypes)}
DappId == "0xdapp"
DappOwner == "0x00a329c0648769a73afac7f9381e08fb43dbea72"
Url == "https://parity.io/logo.png"
NextOwner == "0x1234567890123456789012345678901234567890"

\* updates: each type and owner either left out or set
UpdatesArgs ==
  [ content : {Undefined, Url}, image : {Undefined, Url},
    manifest : {Undefined, Url}, owner : {Undefined, NextOwner} ]

\* .filter((type) => updates[type])
Requested(updates) == {type \in TypeNames : updates[type] \notin {Undefined, ""}}

NoChain ==
  [ pc |-> "unset", registered |-> FALSE, ghhRequest |-> Null,
    estimate |-> 0, postedGas |-> NoGas, trace |-> <<>> ]

\* urlToHash(api, ghhRegInstance, url) called: the url is not empty here, so
\* the lookup is on its way
StartedChain == [NoChain EXCEPT !.pc = "lookup", !.trace = <<"urlToHash">>]

\* updateDappOwner(dappId, dappOwner, nextOwnerAddress, dappRegInstance) up to
\* its first backend call: dappRegInstance.setDappOwner is a property read, a
\* TypeError when dappRegInstance is undefined.
updateDappOwnerCall(dappId, dappOwner, nextOwnerAddress, dappRegInstance) ==
  IF dappRegInstance = Undefined
    THEN [ threw |-> TRUE, method |-> Null, from |-> Undefined,
           values |-> <<Undefined, Undefined>> ]
    ELSE [ threw |-> FALSE, method |-> "setDappOwner.estimateGas",
           from |-> dappOwner, values |-> <<dappId, nextOwnerAddress>> ]

\* updates.owner not set: updateDappOwner is not called
NoOwnerUpdate ==
  [ threw |-> FALSE, method |-> Null, from |-> Undefined,
    values |-> <<Undefined, Undefined>> ]

\* if (updates.owner) promises.push(updateDappOwner(updates.owner).then(...))
OwnerUpdate(updates) ==
  updateDappOwnerCall(updates.owner, Undefined, Undefined, Undefined)

\* postTransaction(options, values) handed the options as they were before
\* the assignment to options.gas
PostedWithStale(before, after) == before

\* options.gas = ...; return postTransaction(options, values): the options
\* posted are the shared object as the assignment left it
PostedWith(before, after) == after

\* updateDapp is called: the chains of the requested types start, then the
\* owner update is built; the list of promises is returned unless that threw.
UpdateDappCalled(updates) ==
  /\ update = <<>>
  /\ update' =
       << [ updates |-> updates,
            optionsGas |-> NoGas,
            chains |-> [type \in TypeNames |->
                          IF type \in Requested(updates) THEN StartedChain ELSE NoChain],
            owner |-> IF updates.owner # Undefined
                        THEN OwnerUpdate(updates)
                        ELSE NoOwnerUpdate,
            threw |-> updates.owner # Undefined /\ OwnerUpdate(updates).threw,
            returned |-> IF updates.owner # Undefined /\ OwnerUpdate(updates).threw
                           THEN -1
                           ELSE Cardinality(Requested(updates))
                                  + (IF updates.owner # Undefined THEN 1 ELSE 0) ] >>
  /\ UNCHANGED <<hvars, wizard, terror, options, chain, lookup, registry>>

ChainAt(type, pc) == Len(update) = 1 /\ update[1].chains[type].pc = pc

Step(type, chainAfter, gasAfter) ==
  /\ update' = << [update[1] EXCEPT !.chains[type] = chainAfter,
                                    !.optionsGas = gasAfter] >>
  /\ UNCHANGED <<hvars, wizard, terror, options, chain, lookup, registry>>

\* UrlHashed without the if (!registered) branch
UrlHashedSkippingHint(type, registered) ==
  /\ ChainAt(type, "lookup")
  /\ Step(type,
          [update[1].chains[type] EXCEPT !.registered = registered,
                                         !.pc = "metaEstimating",
                                         !.trace = Append(@, "setMeta.estimateGas")],
          update[1].optionsGas)

\* urlToHash resolved with { hash, registered }: an unregistered hash goes to
\* registerGHH (hintURL.estimateGas), a registered one straight to
\* setMeta.estimateGas(options, values).
UrlHashed(type, registered) ==
  /\ ChainAt(type, "lookup")
  /\ LET c == update[1].chains[type] IN
     Step(type,
          IF registered
            THEN [c EXCEPT !.registered = TRUE, !.pc = "metaEstimating",
                           !.trace = Append(@, "setMeta.estimateGas")]
            ELSE [c EXCEPT !.registered = FALSE, !.pc = "ghhEstimating",
                           !.trace = Append(@, "hintURL.estimateGas")],
          update[1].optionsGas)

\* registerGHH: the estimate resolved, hintURL.postTransaction is called with
\* registerGHH's own options.
HintEstimated(type) ==
  /\ ChainAt(type, "ghhEstimating")
  /\ Step(type,
          [update[1].chains[type] EXCEPT !.pc = "ghhPosting",
                                         !.trace = Append(@, "hintURL.postTransaction")],
          update[1].optionsGas)

\* registerGHH resolved with the request id; the next .then calls
\* setMeta.estimateGas(options, values).
HintPosted(type) ==
  /\ ChainAt(type, "ghhPosting")
  /\ Step(type,
          [update[1].chains[type] EXCEPT !.pc = "metaEstimating",
                                         !.ghhRequest = "requestId",
                                         !.trace = Append(@, "setMeta.estimateGas")],
          update[1].optionsGas)

\* .then((gas) => { options.gas = gas.mul(1.2).toFixed(0);
\*                  return dappRegInstance.setMeta.postTransaction(options, values); })
MetaEstimated(type, g) ==
  /\ ChainAt(type, "metaEstimating")
  /\ LET assigned == ToFixed0(Mul12(Big(g))) IN
     Step(type,
          [update[1].chains[type] EXCEPT
             !.pc = "metaPosting",
             !.estimate = g,
             !.postedGas = PostedWith(update[1].optionsGas, assigned),
             !.trace = Append(@, "setMeta.postTransaction")],
          assigned)

\* setMeta.postTransaction resolved: the chain's promise resolves with
\* [ ghhRequest, { id, name } ].
MetaPosted(type) ==
  /\ ChainAt(type, "metaPosting")
  /\ Step(type,
          [update[1].chains[type] EXCEPT !.pc = "resolved",
                                         !.trace = Append(@, "requestId")],
          update[1].optionsGas)

\* A backend call of the chain rejected (urlToHash among them): the chain has
\* no .catch, its promise rejects.
ChainRejected(type) ==
  /\ Len(update) = 1
  /\ update[1].chains[type].pc \in
       {"lookup", "ghhEstimating", "ghhPosting", "metaEstimating", "metaPosting"}
  /\ Step(type,
          [update[1].chains[type] EXCEPT !.pc = "rejected",
                                         !.trace = Append(@, "error")],
          update[1].optionsGas)

UpdateInit == HInit /\ WizardsIdle /\ XIdle

UpdateNext ==
  \/ \E updates \in UpdatesArgs : UpdateDappCalled(updates)
  \/ \E type \in TypeNames :
       \/ \E registered \in BOOLEAN : UrlHashed(type, registered)
       \/ HintEstimated(type)
       \/ HintPosted(type)
       \/ \E g \in 1..MaxMetaEstimate : MetaEstimated(type, g)
       \/ MetaPosted(type)
       \/ ChainRejected(type)

UpdateSpec == UpdateInit /\ [][UpdateNext]_vars

\* C23: whatever the order in which the chains ran, the gas a setMeta
\* transaction was posted with is 1.2 times the estimate of its own chain,
\* rounded.
C23_OwnEstimate ==
  \A i \in 1..Len(update) : \A type \in TypeNames :
    LET c == update[i].chains[type] IN
    Count(c.trace, "setMeta.postTransaction") > 0 =>
      /\ c.estimate > 0
      /\ c.postedGas = ToFixed0(Mul12(Big(c.estimate)))

\* The setMeta transactions of content and image are both on their way, with
\* different gas; the shared options hold the gas of image by now.
C23_Witness ==
  /\ Len(update) = 1
  /\ update[1].chains["content"].pc = "metaPosting"
  /\ update[1].chains["image"].pc = "metaPosting"
  /\ update[1].chains["content"].estimate = 1
  /\ update[1].chains["image"].estimate = 2
  /\ update[1].optionsGas = update[1].chains["image"].postedGas
  /\ update[1].optionsGas # update[1].chains["content"].postedGas

\* Where a call stands in a chain's trace (0: not made)
IndexOf(trace, call) ==
  IF Count(trace, call) = 0 THEN 0
  ELSE CHOOSE k \in 1..Len(trace) :
         trace[k] = call /\ \A j \in 1..(k - 1) : trace[j] # call

\* C24: a chain whose hash was not registered has posted hintURL, and got the
\* request id, before it asks for the setMeta estimate; a chain whose hash
\* was registered never estimates or posts hintURL.
C24_HintBeforeMeta ==
  \A i \in 1..Len(update) : \A type \in TypeNames :
    LET c == update[i].chains[type] IN
    /\ (~c.registered /\ Count(c.trace, "setMeta.estimateGas") > 0) =>
         /\ Count(c.trace, "hintURL.postTransaction") = 1
         /\ IndexOf(c.trace, "hintURL.postTransaction")
              < IndexOf(c.trace, "setMeta.estimateGas")
         /\ c.ghhRequest = "requestId"
    /\ Count(c.trace, "setMeta.postTransaction") > 0 =>
         IndexOf(c.trace, "setMeta.estimateGas")
           < IndexOf(c.trace, "setMeta.postTransaction")
    /\ c.registered =>
         /\ Count(c.trace, "hintURL.estimateGas") = 0
         /\ Count(c.trace, "hintURL.postTransaction") = 0
         /\ c.ghhRequest = Null

\* One chain registered its URL first and has posted setMeta, another found
\* its hash registered and posted setMeta without a hintURL.
C24_Witness ==
  /\ Len(update) = 1
  /\ update[1].chains["content"].pc = "resolved"
  /\ ~update[1].chains["content"].registered
  /\ update[1].chains["content"].ghhRequest = "requestId"
  /\ update[1].chains["manifest"].pc = "resolved"
  /\ update[1].chains["manifest"].registered

\* C25: the call does not throw and returns one promise per requested
\* change; with updates.owner set, the owner update estimates setDappOwner
\* from dappOwner for (dappId, updates.owner).
C25_ReturnsList ==
  \A i \in 1..Len(update) :
    LET u == update[i] IN
    /\ ~u.threw
    /\ u.returned = Cardinality(Requested(u.updates))
                      + (IF u.updates.owner # Undefined THEN 1 ELSE 0)
    /\ u.updates.owner # Undefined =>
         /\ u.owner.method = "setDappOwner.estimateGas"
         /\ u.owner.from = DappOwner
         /\ u.owner.values = <<DappId, u.updates.owner>>

====
